---- MODULE Spec2Model ----
(***************************************************************************)
(* class KMeans of 4-interactive-tutorials/kmeans_example.ipynb: the       *)
(* wrapper object (its six fields), its constructor and its compute        *)
(* method, step by step, together with the two PyDAAL algorithm objects    *)
(* compute drives (init.Batch_Float64RandomDense and                       *)
(* kmeans.Batch_Float64LloydDense) as the notebook documents them.         *)
(*                                                                         *)
(* An optional value (Python's None or a value) is <<>> or <<v>>.  A       *)
(* numeric table is a sequence of rows, a row a sequence of integers.      *)
(* Coordinates are multiples of Scale, so that the mean of up to MaxN      *)
(* input points is again an integer and all arithmetic is exact.           *)
(***************************************************************************)
EXTENDS Integers, Sequences, FiniteSets, TLC

VARIABLES
  points,    \* the numeric table (data) the notebook clusters
  self,      \* the KMeans object: nclusters_, seed_, centroids_, assignments_, goalfunction_, niterations_
  ctor,      \* the arguments the object was constructed with
  pc,        \* where compute stands: "idle", "cluster", "lloyd"
  call,      \* the running (or last) compute call's arguments
  alg,       \* the clustering algorithm object's state during compute()
  outcome,   \* of the running or last compute call: "none", "running", "ok", "error"
  self0,     \* the object as it was when the running (or last) call began
  iters,     \* assignment/update iterations executed by the running (or last) call
  last,      \* the previous call that completed normally: its inputs and results
  lib        \* what the library does where the notebook does not say

vars == <<points, self, ctor, pc, call, alg, outcome, self0, iters, last, lib>>

----------------------------------------------------------------------------
(* Bounds of the model.                                                    *)

MaxN == 3

MaxK == 3

MaxIters == 3

(* The seed used when none is given.                                       *)
DefaultSeed == 1234

RECURSIVE Fact(_)
Fact(n) == IF n <= 1 THEN 1 ELSE n * Fact(n - 1)

Scale == Fact(MaxN)

NoneV == <<>>

Some(v) == <<v>>

----------------------------------------------------------------------------
(* Inputs.                                                                 *)

Coords == {0, 1, 3}

Row1(c) == <<Scale * c>>

Row2(a, b) == <<Scale * a, Scale * b>>

(* One-dimensional point sets of 1..MaxN points, in non-decreasing order   *)
(* (the seed rotates the rows the initialization picks).                   *)
Data1D ==
  { d \in UNION { [1..n -> {Row1(c) : c \in Coords}] : n \in 1..MaxN } :
      \A i \in 1..(Len(d) - 1) : d[i][1] <= d[i + 1][1] }

Data2D ==
  { <<Row2(0, 0), Row2(2, 1)>>,
    <<Row2(0, 0), Row2(0, 1), Row2(2, 0)>> }

DataSets == Data1D \cup Data2D

(* The centroids argument: None, or a table the caller built.              *)
CentroidTables ==
  { <<Row1(0), Row1(1)>>,
    <<Row1(5), Row1(7)>> }

CentroidArgs == {NoneV} \cup {Some(t) : t \in CentroidTables}

SeedArgs == {NoneV, Some(DefaultSeed), Some(5)}

Ks == 0..MaxK

MaxIterArgs == 0..MaxIters

----------------------------------------------------------------------------
(* Numeric tables.                                                         *)

NRows(t) == Len(t)

NCols(t) == IF Len(t) = 0 THEN 0 ELSE Len(t[1])

RECURSIVE SumUpTo(_, _)
SumUpTo(f, n) == IF n = 0 THEN 0 ELSE f[n] + SumUpTo(f, n - 1)

(* ||x - m||^2, the squared Euclidean distance of the goal function.       *)
SqDist(p, c) ==
  SumUpTo([i \in 1..Len(p) |-> (p[i] - c[i]) * (p[i] - c[i])], Len(p))

----------------------------------------------------------------------------
(* The library, as the notebook documents it: "The initialization step is  *)
(* to randomly pick k centroids.  The clustering step runs up to maxiter   *)
(* iterations: Each iteration assign each of all observations to the       *)
(* closest centroid, and then re-computes the centroids."                  *)

(* init.Batch_Float64RandomDense(k).compute() with parameter.seed = seed:  *)
(* k rows of the data, a function of the data, k and the seed alone.  The  *)
(* draw is modelled as a rotation of the rows by the seed: distinct rows   *)
(* while k <= n.                                                           *)
InitPickOneRow(data, k, seed) ==
  [i \in 1..k |-> data[(seed % Len(data)) + 1]]

InitPick(data, k, seed) ==
  [i \in 1..k |-> data[((seed + i - 1) % Len(data)) + 1]]

(* The index (from 0) of the centroid closest to p; the lowest index among *)
(* equally close ones.                                                     *)
Closest(p, cents) ==
  CHOOSE j \in 0..(Len(cents) - 1) :
    /\ \A i \in 0..(Len(cents) - 1) : SqDist(p, cents[j + 1]) <= SqDist(p, cents[i + 1])
    /\ \A i \in 0..(j - 1) : SqDist(p, cents[i + 1]) > SqDist(p, cents[j + 1])

(* The assignment step: every observation to its closest centroid.         *)
Assign(data, cents) == [i \in 1..Len(data) |-> Closest(data[i], cents)]

Members(assign, j) == {i \in 1..Len(assign) : assign[i] = j}

RECURSIVE SumCoord(_, _, _)
SumCoord(data, S, c) ==
  IF S = {} THEN 0
  ELSE LET i == CHOOSE x \in S : TRUE
       IN data[i][c] + SumCoord(data, S \ {i}, c)

MeanNotDivided(data, S) ==
  [c \in 1..NCols(data) |-> SumCoord(data, S, c)]

(* The centroid of a non-empty cluster: the coordinate-wise mean.          *)
Mean(data, S) ==
  [c \in 1..NCols(data) |-> SumCoord(data, S, c) \div Cardinality(S)]

(* The update step: every centroid recomputed from the observations        *)
(* assigned to it; a centroid no observation is assigned to stays.         *)
Update(data, cents, assign) ==
  [j \in 1..Len(cents) |->
     IF Members(assign, j - 1) = {} THEN cents[j]
     ELSE Mean(data, Members(assign, j - 1))]

(* The goal function: the sum over the clusters S_i of ||x_j - m_i||^2     *)
(* over the observations x_j of S_i.                                       *)
Goal(data, cents, assign) ==
  SumUpTo([i \in 1..Len(data) |-> SqDist(data[i], cents[assign[i] + 1])], Len(data))

(* The algorithm object before its first iteration.                        *)
AlgStart(cents) ==
  [cents |-> cents, assign |-> NoneV, prev |-> NoneV,
   goal |-> NoneV, prevgoal |-> NoneV, iter |-> 0]

(* One iteration: assign, re-compute the centroids, evaluate the goal.     *)
LloydStep(data, st) ==
  LET a == Assign(data, st.cents)
      c == Update(data, st.cents, a)
  IN [cents |-> c, assign |-> Some(a), prev |-> st.assign,
      goal |-> Some(Goal(data, c, a)), prevgoal |-> st.goal,
      iter |-> st.iter + 1]

(* No observation changed its cluster in the last iteration.               *)
Converged(st) == st.prev # NoneV /\ st.assign = st.prev

(* "runs up to maxiter iterations": the notebook fixes the cap and nothing *)
(* else, so the rule is a parameter of the library: either the cap alone,  *)
(* or the cap and convergence of the assignments.                          *)
StopNow(st, maxiters, rule) ==
  \/ st.iter >= maxiters
  \/ rule = "converged" /\ Converged(st)

(* What result.get(...) hands out once the algorithm has stopped.  With no *)
(* iteration run the input centroids are only assigned to.                 *)
LibResultOneBased(data, st) ==
  IF st.iter = 0
  THEN [centroids |-> st.cents,
        assignments |-> [i \in 1..Len(data) |-> Closest(data[i], st.cents) + 1],
        goalFunction |-> Goal(data, st.cents, Assign(data, st.cents)),
        nIterations |-> 0]
  ELSE [centroids |-> st.cents,
        assignments |-> [i \in 1..Len(data) |-> st.assign[1][i] + 1],
        goalFunction |-> st.goal[1], nIterations |-> st.iter]

LibResult(data, st) ==
  IF st.iter = 0
  THEN [centroids |-> st.cents, assignments |-> Assign(data, st.cents),
        goalFunction |-> Goal(data, st.cents, Assign(data, st.cents)),
        nIterations |-> 0]
  ELSE [centroids |-> st.cents, assignments |-> st.assign[1],
        goalFunction |-> st.goal[1], nIterations |-> st.iter]

(* Parameters outside the contract of the two library calls.               *)
InitInvalid(data, k) == k <= 0 \/ k > NRows(data)

ClusterInvalid(data, k, maxiters) ==
  k <= 0 \/ k > NRows(data) \/ maxiters <= 0

(* Inputs the clustering cannot work on: no cluster to assign to, or an    *)
(* inputCentroids table that is not the nClusters x p table the algorithm  *)
(* object was created for.                                                 *)
ClusterImpossible(data, k, cents) ==
  k <= 0 \/ NRows(cents) # k \/ NCols(cents) # NCols(data)

(* Whether the library call raises.  The notebook does not say which of    *)
(* the parameters the library checks: a validating library raises on every *)
(* parameter outside the contract, a lenient one only where it cannot go   *)
(* on.                                                                     *)
InitRaises(validates, data, k) ==
  \/ k <= 0
  \/ validates /\ InitInvalid(data, k)

ClusterRaises(validates, data, k, cents, maxiters) ==
  \/ ClusterImpossible(data, k, cents)
  \/ validates /\ ClusterInvalid(data, k, maxiters)

----------------------------------------------------------------------------
(* class KMeans.                                                           *)

(* self.seed_ = 1234 if randomseed is None else randomseed                 *)
SeedOfZeroDefault(randomseed) == IF randomseed = NoneV THEN 0 ELSE randomseed[1]

SeedOf(randomseed) == IF randomseed = NoneV THEN DefaultSeed ELSE randomseed[1]

(* KMeans.__init__                                                         *)
Ctor(nclusters, randomseed) ==
  [nclusters_ |-> nclusters, seed_ |-> SeedOf(randomseed),
   centroids_ |-> NoneV, assignments_ |-> NoneV,
   goalfunction_ |-> NoneV, niterations_ |-> NoneV]

(* compute, "if centroids is None: ... else: self.centroids_ = centroids": *)
(* the table self.centroids_ is set to before the clustering.              *)
StartCentroidsAlwaysInit(obj, cl) ==
  InitPick(points, obj.nclusters_, obj.seed_)

StartCentroidsWarm(obj, cl) ==
  IF cl.centroids # NoneV THEN cl.centroids[1]
  ELSE IF obj.centroids_ # NoneV /\ NRows(obj.centroids_[1]) = obj.nclusters_
       THEN obj.centroids_[1]
       ELSE InitPick(points, obj.nclusters_, obj.seed_)

StartCentroids(obj, cl) ==
  IF cl.centroids = NoneV
  THEN InitPick(points, obj.nclusters_, obj.seed_)
  ELSE cl.centroids[1]

(* compute, the four assignments from result.get(...).                     *)
StoreResultNoAssignments(obj, r) ==
  [obj EXCEPT !.centroids_ = Some(r.centroids),
              !.goalfunction_ = Some(r.goalFunction),
              !.niterations_ = Some(r.nIterations)]

StoreResult(obj, r) ==
  [obj EXCEPT !.centroids_ = Some(r.centroids),
              !.assignments_ = Some(r.assignments),
              !.goalfunction_ = Some(r.goalFunction),
              !.niterations_ = Some(r.nIterations)]

(* The four results as the object holds them.                              *)
Results(obj) ==
  [centroids |-> obj.centroids_, assignments |-> obj.assignments_,
   goalFunction |-> obj.goalfunction_, nIterations |-> obj.niterations_]

(* clustering_alg.input.set(kmeans.inputCentroids, self.centroids_)        *)
InputCentroids(obj) == obj.centroids_[1]

----------------------------------------------------------------------------
(* Bookkeeping for the properties: the last call that completed normally,  *)
(* kept while the object and the next call repeat its k and arguments.     *)

RunRecord ==
  [k |-> self.nclusters_, randomseed |-> ctor.randomseed, data |-> points,
   centroids |-> call.centroids, maxiters |-> call.maxiters,
   result |-> Results(self)]

Captured == IF outcome = "ok" THEN Some(RunRecord) ELSE last

----------------------------------------------------------------------------
NoCall == [centroids |-> NoneV, maxiters |-> 0]

Init ==
  /\ points \in DataSets
  /\ \E k \in Ks, rs \in SeedArgs :
       /\ self = Ctor(k, rs)
       /\ ctor = [nclusters |-> k, randomseed |-> rs]
  /\ pc = "idle"
  /\ call = NoCall
  /\ alg = AlgStart(<<>>)
  /\ outcome = "none"
  /\ self0 = self
  /\ iters = 0
  /\ last = NoneV
  /\ lib \in [validates : BOOLEAN, stop : {"maxiter", "converged"}]

(* clustering = KMeans(nclusters[, randomseed]): a new object takes the    *)
(* place of the old one.                                                   *)
Construct(k, rs) ==
  /\ pc = "idle"
  /\ self' = Ctor(k, rs)
  /\ ctor' = [nclusters |-> k, randomseed |-> rs]
  /\ call' = NoCall
  /\ alg' = AlgStart(<<>>)
  /\ outcome' = "none"
  /\ self0' = self'
  /\ iters' = 0
  /\ last' = IF Captured # NoneV /\ Captured[1].k = k THEN Captured ELSE NoneV
  /\ UNCHANGED <<points, pc, lib>>

(* What entering compute leaves of the bookkeeping.                        *)
Enter(cents, maxiters) ==
  /\ pc = "idle"
  /\ call' = [centroids |-> cents, maxiters |-> maxiters]
  /\ alg' = AlgStart(<<>>)
  /\ self0' = self
  /\ iters' = 0
  /\ last' = IF /\ Captured # NoneV
                /\ Captured[1].centroids = cents
                /\ Captured[1].maxiters = maxiters
             THEN Captured ELSE NoneV
  /\ UNCHANGED <<points, ctor, lib>>

(* clustering.compute(data, maxiters = m), "if centroids is None": the     *)
(* initialization algorithm runs and its centroids are stored, unless its  *)
(* compute() raises.                                                       *)
ComputeInit(maxiters) ==
  /\ Enter(NoneV, maxiters)
  /\ IF InitRaises(lib.validates, points, self.nclusters_)
     THEN /\ pc' = "idle"
          /\ outcome' = "error"
          /\ UNCHANGED self
     ELSE /\ pc' = "cluster"
          /\ outcome' = "running"
          /\ self' = [self EXCEPT !.centroids_ = Some(StartCentroids(self, call'))]

(* clustering.compute(data, centroids, m), "else: self.centroids_ =        *)
(* centroids".                                                             *)
ComputeWith(cents, maxiters) ==
  /\ Enter(cents, maxiters)
  /\ cents # NoneV
  /\ pc' = "cluster"
  /\ outcome' = "running"
  /\ self' = [self EXCEPT !.centroids_ = Some(StartCentroids(self, call'))]

(* The clustering algorithm object is created, given the data and          *)
(* self.centroids_, and clustering_alg.compute() begins: it raises, or     *)
(* stands before its first iteration.                                      *)
ClusterStart ==
  /\ pc = "cluster"
  /\ IF ClusterRaises(lib.validates, points, self.nclusters_,
                      self.centroids_[1], call.maxiters)
     THEN /\ pc' = "idle"
          /\ outcome' = "error"
          /\ UNCHANGED alg
     ELSE /\ pc' = "lloyd"
          /\ alg' = AlgStart(InputCentroids(self))
          /\ UNCHANGED outcome
  /\ UNCHANGED <<points, self, ctor, call, self0, iters, last, lib>>

(* One iteration inside clustering_alg.compute().                          *)
Iterate ==
  /\ pc = "lloyd"
  /\ ~StopNow(alg, call.maxiters, lib.stop)
  /\ alg' = LloydStep(points, alg)
  /\ iters' = iters + 1
  /\ UNCHANGED <<points, self, ctor, pc, call, outcome, self0, last, lib>>

(* clustering_alg.compute() returns and the four results are stored.       *)
Finish ==
  /\ pc = "lloyd"
  /\ StopNow(alg, call.maxiters, lib.stop)
  /\ self' = StoreResult(self, LibResult(points, alg))
  /\ pc' = "idle"
  /\ outcome' = "ok"
  /\ UNCHANGED <<points, ctor, call, alg, self0, iters, last, lib>>

Next ==
  \/ \E k \in Ks, rs \in SeedArgs : Construct(k, rs)
  \/ \E m \in MaxIterArgs : ComputeInit(m)
  \/ \E cents \in CentroidArgs, m \in MaxIterArgs : ComputeWith(cents, m)
  \/ ClusterStart
  \/ Iterate
  \/ Finish

Spec == Init /\ [][Next]_vars

----------------------------------------------------------------------------
(* What the properties speak of.                                           *)

N == NRows(points)

K == self.nclusters_

(* compute has returned normally / has raised.                             *)
Done == pc = "idle" /\ outcome = "ok"

Failed == pc = "idle" /\ outcome = "error"

(* A call is running or has ended (no new object has replaced this one).   *)
Called == outcome # "none"

ExplicitCentroids == call.centroids # NoneV

GoodShape(t) == NRows(t) = K /\ NCols(t) = NCols(points)

(* n points, 1 <= k <= n, maxIterations >= 1, and centroids, when given,   *)
(* of k rows and the points' dimension.                                    *)
ValidCall ==
  /\ 1 <= K /\ K <= N
  /\ call.maxiters >= 1
  /\ ExplicitCentroids => GoodShape(call.centroids[1])

InRange(a) == Len(a) = N /\ \A i \in 1..Len(a) : a[i] \in 0..(K - 1)

PairwiseDistinct(a) == \A i, j \in 1..Len(a) : i # j => a[i] # a[j]

----------------------------------------------------------------------------
(* C1: for every valid input the assignment vector compute leaves has      *)
(* exactly n entries, each an integer in [0, k); the same holds of the     *)
(* assignment vector inside the clustering after every assignment pass.    *)
C1_AssignmentsInRange ==
  /\ (Done /\ ValidCall) =>
       self.assignments_ # NoneV /\ InRange(self.assignments_[1])
  /\ (pc = "lloyd" /\ ValidCall /\ alg.assign # NoneV) => InRange(alg.assign[1])

(* A valid call has returned and its points went to two different clusters.*)
C1_Witness ==
  /\ Done /\ ValidCall /\ K >= 2
  /\ \E i, j \in 1..N : self.assignments_[1][i] # self.assignments_[1][j]

(* C2: a compute call that completes normally leaves all four results      *)
(* (centroids, assignments, goal function, number of iterations), each the *)
(* one of this call's clustering run: they are the run's result, the       *)
(* iteration count is the number of iterations this call executed and the  *)
(* goal value is the goal function of the centroids and assignments held.  *)
C2_FourResultsOfOneRun ==
  Done =>
    LET r == LibResult(points, alg) IN
    /\ self.centroids_ = Some(r.centroids)
    /\ self.assignments_ = Some(r.assignments)
    /\ self.goalfunction_ = Some(r.goalFunction)
    /\ self.niterations_ = Some(r.nIterations)
    /\ self.niterations_[1] = iters
    /\ self.goalfunction_[1] =
         Goal(points, self.centroids_[1], self.assignments_[1])

(* A later call on an object that held results returned other results.     *)
C2_Witness ==
  /\ Done
  /\ self0.assignments_ # NoneV
  /\ self0.assignments_ # self.assignments_
  /\ self0.niterations_ # self.niterations_

(* C3: a compute call with k <= 0, k > n or maxIterations <= 0 fails, and  *)
(* before any assignment/update iteration has run.                         *)
C3_InvalidInputFails ==
  (Called /\ (K <= 0 \/ K > N \/ call.maxiters <= 0)) =>
    /\ iters = 0
    /\ pc = "idle" => outcome = "error"

(* C4: no partial failure: a compute call that fails has run no iteration  *)
(* and leaves the object as it was when the call began.                    *)
C4_NoPartialFailure ==
  Failed => (iters = 0 /\ self = self0)

(* C7: explicit initial centroids of k rows and the points' dimension are  *)
(* the starting centroids of the clustering, unchanged; of another shape   *)
(* they make the call fail.                                                *)
C7_ExplicitCentroids ==
  (Called /\ ExplicitCentroids) =>
    /\ pc = "cluster" => self.centroids_ = call.centroids
    /\ (GoodShape(call.centroids[1]) /\ pc = "lloyd" /\ iters = 0) =>
         alg.cents = call.centroids[1]
    /\ (~GoodShape(call.centroids[1]) /\ pc = "idle") =>
         (outcome = "error" /\ iters = 0)

(* The clustering stands before its first iteration on supplied centroids  *)
(* that are not the ones the seeded initialization would have picked.      *)
C7_Witness ==
  /\ pc = "lloyd" /\ iters = 0
  /\ ExplicitCentroids /\ GoodShape(call.centroids[1])
  /\ alg.cents # InitPick(points, K, self.seed_)

(* A call with supplied centroids of the wrong shape has failed.           *)
C7_WitnessBadShape ==
  Failed /\ ExplicitCentroids /\ ~GoodShape(call.centroids[1])

(* C5: two runs with the same points, seed, k and maxIterations and no     *)
(* explicit centroids leave the same four results, a run of an object      *)
(* built without a seed counting as a run with seed 1234.                  *)
GivenSeed(rs) == IF rs = NoneV THEN 1234 ELSE rs[1]

SameDefaultRun ==
  /\ last # NoneV
  /\ ~ExplicitCentroids /\ last[1].centroids = NoneV
  /\ last[1].data = points /\ last[1].k = K
  /\ last[1].maxiters = call.maxiters
  /\ GivenSeed(last[1].randomseed) = GivenSeed(ctor.randomseed)

C5_Deterministic ==
  /\ (ctor.randomseed = NoneV) => self.seed_ = 1234
  /\ (Done /\ SameDefaultRun) => Results(self) = last[1].result

(* A run of an object built without a seed has repeated the run of an      *)
(* earlier object built with seed 1234, on several points.                 *)
C5_Witness ==
  /\ Done /\ SameDefaultRun /\ N >= 2
  /\ ctor.randomseed = NoneV /\ last[1].randomseed # NoneV

(* C8: every compute call ends as the same call ends when it is the first  *)
(* call on a freshly constructed object of the same k and seed: it fails   *)
(* when that one fails and otherwise leaves the same four results,         *)
(* whatever calls the object has served before.                            *)
RECURSIVE LloydRun(_, _, _, _)
LloydRun(data, st, maxiters, rule) ==
  IF StopNow(st, maxiters, rule) THEN LibResult(data, st)
  ELSE LloydRun(data, LloydStep(data, st), maxiters, rule)

FreshFails(k, seed, data, cents, maxiters) ==
  IF cents = NoneV /\ InitRaises(lib.validates, data, k) THEN TRUE
  ELSE ClusterRaises(lib.validates, data, k,
                     IF cents = NoneV THEN InitPick(data, k, seed) ELSE cents[1],
                     maxiters)

FreshResults(k, seed, data, cents, maxiters) ==
  LET r == LloydRun(data,
                    AlgStart(IF cents = NoneV THEN InitPick(data, k, seed)
                             ELSE cents[1]),
                    maxiters, lib.stop)
  IN [centroids |-> Some(r.centroids), assignments |-> Some(r.assignments),
      goalFunction |-> Some(r.goalFunction), nIterations |-> Some(r.nIterations)]

C8_CallsIndependent ==
  (pc = "idle" /\ Called) =>
    IF FreshFails(K, GivenSeed(ctor.randomseed), points, call.centroids, call.maxiters)
    THEN outcome = "error"
    ELSE /\ outcome = "ok"
         /\ Results(self) =
              FreshResults(K, GivenSeed(ctor.randomseed), points,
                           call.centroids, call.maxiters)

(* A call without explicit centroids has returned on an object that held   *)
(* the other centroids of an earlier call.                                 *)
C8_Witness ==
  /\ Done /\ ~ExplicitCentroids
  /\ self0.niterations_ # NoneV
  /\ self0.centroids_ # self.centroids_

(* C9: the goal-function value of every iteration is non-negative and not  *)
(* above the value of the iteration before it.                             *)
C9_GoalNonIncreasing ==
  alg.goal # NoneV =>
    /\ alg.goal[1] >= 0
    /\ alg.prevgoal # NoneV => alg.goal[1] <= alg.prevgoal[1]

(* An iteration has lowered the goal-function value.                       *)
C9_Witness ==
  /\ pc = "lloyd" /\ alg.prevgoal # NoneV
  /\ alg.goal[1] < alg.prevgoal[1]

(* The run stopped because its last iteration changed no assignment.       *)
StoppedByConvergence == lib.stop = "converged" /\ Converged(alg)

(* C10 as stated: whenever a valid run with k = n has stopped by           *)
(* convergence, the n assignments are pairwise distinct and the            *)
(* goal-function value is zero.                                            *)
C10_EachPointItsOwnCluster ==
  (Done /\ ValidCall /\ K = N /\ StoppedByConvergence) =>
    /\ PairwiseDistinct(self.assignments_[1])
    /\ self.goalfunction_[1] = 0

(* C10 as amended: the same, for pairwise distinct points and centroids    *)
(* picked by the seeded initialization.                                    *)
C10_DistinctPointsOwnCluster ==
  (Done /\ ValidCall /\ K = N /\ StoppedByConvergence
     /\ ~ExplicitCentroids /\ PairwiseDistinct(points)) =>
    /\ PairwiseDistinct(self.assignments_[1])
    /\ self.goalfunction_[1] = 0

(* Three distinct points, k = 3, initialized by the seed, converged.       *)
C10_Witness ==
  /\ Done /\ ValidCall /\ K = N /\ N = 3 /\ StoppedByConvergence
  /\ ~ExplicitCentroids /\ PairwiseDistinct(points)

====
